---- MODULE Spec2Model ----
(***************************************************************************)
(* A model of LegacyPartNumberConversionFinder.py: the file loader          *)
(* load_data_file (lines 15-42) and the Streamlit script's load / select /  *)
(* convert cycle (lines 100-148).                                           *)
(*                                                                          *)
(* Text is a sequence of one-character strings, so that str(), lower(),     *)
(* strip(), endswith() and "in" are computed and not assumed.  A cell of a  *)
(* DataFrame is a record [t, s, n]: a str (t = "str", text s), an int       *)
(* (t = "int", value n) or a missing value (t = "nan").  A DataFrame is a   *)
(* record [columns, rows]: the column labels in order (labels may repeat,   *)
(* as pandas allows after a rename) and the rows, each a sequence of cells. *)
(*                                                                          *)
(* The pandas operations are modelled with the semantics of the pandas 1.x  *)
(* / 2.x line the script is written for (astype(str) turns a missing value  *)
(* into the text "nan"; a Series selected from a frame with unique labels   *)
(* is a view, so fillna(inplace=True) on it writes through to the frame).   *)
(***************************************************************************)
EXTENDS Integers, Sequences, FiniteSets, TLC

VARIABLES
    \* ---- the Streamlit script (lines 85-159)
    master_df,      \* load_data_file(master_file, ...): a DataFrame or None
    user_df,        \* load_data_file(user_file, ...):   a DataFrame or None
    loaded_master,  \* history: master_df as load_data_file returned it
    loaded_user,    \* history: user_df as load_data_file returned it
    master_e_col,   \* selectbox "E Number column (the Key)"
    new_part_col,   \* selectbox "New Part Number column (the Value)"
    user_e_col,     \* selectbox "column with E-Numbers to convert"
    result_df,      \* the frame shown after "Convert Part Numbers", or None
    convert_exc,    \* the exception the convert block ended with, or NoExc
    \* ---- one call of load_data_file (lines 15-42)
    pc,             \* the call's position
    file_name,      \* uploaded_file.name
    skiprows,       \* header_row - 1
    file_pos,       \* the read position of uploaded_file
    calls,          \* the readers and file operations invoked, in order
    pending_exc,    \* the message of the exception being handled, or <<>>
    ret,            \* what the call returned
    diag            \* the st.error diagnostics reported

appVars  == <<master_df, user_df, loaded_master, loaded_user, master_e_col,
              new_part_col, user_e_col, result_df, convert_exc>>
loadVars == <<pc, file_name, skiprows, file_pos, calls, pending_exc, ret, diag>>
vars     == <<master_df, user_df, loaded_master, loaded_user, master_e_col,
              new_part_col, user_e_col, result_df, convert_exc,
              pc, file_name, skiprows, file_pos, calls, pending_exc, ret, diag>>

(***************************************************************************)
(* Cells and text                                                          *)
(***************************************************************************)
Str(s) == [t |-> "str", s |-> s, n |-> 0]
Int_(n) == [t |-> "int", s |-> <<>>, n |-> n]
NaN == [t |-> "nan", s |-> <<>>, n |-> 0]

isna(c) == c.t = "nan"

Whitespace == {" ", "\t", "\n", "\r"}

DigitChar(d) == <<"0", "1", "2", "3", "4", "5", "6", "7", "8", "9">>[d + 1]

RECURSIVE Digits(_)
Digits(n) == IF n < 10 THEN <<DigitChar(n)>>
             ELSE Digits(n \div 10) \o <<DigitChar(n % 10)>>

\* Python's str(x) of a cell: the text itself, the decimal numeral, or "nan".
py_str(c) ==
    CASE c.t = "str" -> c.s
      [] c.t = "int" -> IF c.n < 0 THEN <<"-">> \o Digits(-c.n) ELSE Digits(c.n)
      [] OTHER       -> <<"n", "a", "n">>

RECURSIVE lstrip(_)
lstrip(s) == IF s = <<>> THEN s
             ELSE IF Head(s) \in Whitespace THEN lstrip(Tail(s)) ELSE s

RECURSIVE rstrip(_)
rstrip(s) == IF s = <<>> THEN s
             ELSE IF s[Len(s)] \in Whitespace THEN rstrip(SubSeq(s, 1, Len(s) - 1))
             ELSE s

\* a mutant of str_strip: only the leading whitespace is removed
str_strip_left_only(s) == lstrip(s)

\* str.strip()
str_strip(s) == rstrip(lstrip(s))

\* a mutant of astype_str: an int is left an int
astype_str_keeps_int(c) == IF c.t = "int" THEN c ELSE Str(py_str(c))

\* Series.astype(str), one element
astype_str(c) == Str(py_str(c))

\* series.astype(str).str.strip(), the key normalisation of lines 138-139
normalize_series(series) ==
    [i \in 1..Len(series) |-> LET c == astype_str(series[i])
                              IN  IF c.t = "str" THEN Str(str_strip(c.s)) ELSE c]

(***************************************************************************)
(* DataFrames and the pandas operations the convert block uses             *)
(***************************************************************************)
None == [none |-> TRUE]

NoExc == ""

\* a call that has not returned yet
Pending == [kind |-> "pending", value |-> None]

ColNames(df) == {df.columns[i] : i \in 1..Len(df.columns)}

\* the positions of the columns labelled name
ColPositions(df, name) == {i \in 1..Len(df.columns) : df.columns[i] = name}

\* the cells of the column at position i, top to bottom
ColumnAt(df, i) == [r \in 1..Len(df.rows) |-> df.rows[r][i]]

RECURSIVE SelectByIndex(_, _, _)
\* the elements of seq whose index is in S, from index i on, in order
SelectByIndex(seq, S, i) ==
    IF i > Len(seq) THEN <<>>
    ELSE (IF i \in S THEN <<seq[i]>> ELSE <<>>) \o SelectByIndex(seq, S, i + 1)

RECURSIVE Flatten(_)
Flatten(ss) == IF ss = <<>> THEN <<>> ELSE Head(ss) \o Flatten(Tail(ss))

\* df[[a, b]] on a frame with unique labels: the two columns, in the order asked
getitem_list(df, names) ==
    [columns |-> names,
     rows |-> [r \in 1..Len(df.rows) |->
                 [j \in 1..Len(names) |->
                    df.rows[r][CHOOSE i \in ColPositions(df, names[j]) : TRUE]]]]

\* df[name] = series, on an existing label: the column's cells are replaced
setitem(df, name, series) ==
    [df EXCEPT !.rows =
        [r \in 1..Len(df.rows) |->
           [i \in 1..Len(df.columns) |->
              IF i \in ColPositions(df, name) THEN series[r] ELSE df.rows[r][i]]]]

\* a mutant of drop_duplicates: nothing is dropped
drop_duplicates_none(df, subset) == df

\* a mutant of drop_duplicates: keep='last'
drop_duplicates_last(df, subset) ==
    LET p == CHOOSE i \in ColPositions(df, subset) : TRUE
        kept == {r \in 1..Len(df.rows) :
                   \A q \in (r + 1)..Len(df.rows) : df.rows[q][p] # df.rows[r][p]}
    IN  [df EXCEPT !.rows = SelectByIndex(df.rows, kept, 1)]

\* df.drop_duplicates(subset=[subset]) with the default keep='first'
drop_duplicates(df, subset) ==
    LET p == CHOOSE i \in ColPositions(df, subset) : TRUE
        kept == {r \in 1..Len(df.rows) :
                   \A q \in 1..(r - 1) : df.rows[q][p] # df.rows[r][p]}
    IN  [df EXCEPT !.rows = SelectByIndex(df.rows, kept, 1)]

\* pd.merge(left, right, left_on=..., right_on=..., how='left'), both key labels
\* present: a right key column of the left key's name is not repeated; any other
\* label the two frames share gets the suffixes _x (left) and _y (right); every
\* left row, in order, is paired with each right row of an equal key, or with
\* missing values when there is none.
merge(left, right, left_on, right_on) ==
    LET lp == CHOOSE i \in ColPositions(left, left_on) : TRUE
        rp == CHOOSE i \in ColPositions(right, right_on) : TRUE
        rkeep == IF left_on = right_on THEN (1..Len(right.columns)) \ {rp}
                 ELSE 1..Len(right.columns)
        rcols == SelectByIndex(right.columns, rkeep, 1)
        overlap == ColNames(left) \cap {rcols[j] : j \in 1..Len(rcols)}
        lnames == [i \in 1..Len(left.columns) |->
                     IF left.columns[i] \in overlap THEN left.columns[i] \o "_x"
                     ELSE left.columns[i]]
        rnames == [j \in 1..Len(rcols) |->
                     IF rcols[j] \in overlap THEN rcols[j] \o "_y" ELSE rcols[j]]
        nans == [j \in 1..Len(rcols) |-> NaN]
        joined(lr) ==
            LET hits == {q \in 1..Len(right.rows) : right.rows[q][rp] = lr[lp]}
            IN  IF hits = {} THEN <<lr \o nans>>
                ELSE [m \in 1..Cardinality(hits) |->
                        lr \o SelectByIndex(SelectByIndex(right.rows, hits, 1)[m], rkeep, 1)]
    IN  [columns |-> lnames \o rnames,
         rows |-> Flatten([r \in 1..Len(left.rows) |-> joined(left.rows[r])])]

\* df.rename(columns={old: new}): every label old becomes new; no label old, no change
rename(df, old, new) ==
    [df EXCEPT !.columns =
        [i \in 1..Len(df.columns) |-> IF df.columns[i] = old THEN new ELSE df.columns[i]]]

\* df.drop(columns=[name]), the label present: every column so labelled is removed
drop(df, name) ==
    LET keep == (1..Len(df.columns)) \ ColPositions(df, name)
    IN  [columns |-> SelectByIndex(df.columns, keep, 1),
         rows |-> [r \in 1..Len(df.rows) |-> SelectByIndex(df.rows[r], keep, 1)]]

\* series.fillna(value), one column of a frame filled in place
fillna_column(df, p, value) ==
    [df EXCEPT !.rows =
        [r \in 1..Len(df.rows) |->
           [i \in 1..Len(df.columns) |->
              IF i = p /\ isna(df.rows[r][i]) THEN value ELSE df.rows[r][i]]]]

(***************************************************************************)
(* The convert block, lines 134-148.  Its frames live in a heap of named    *)
(* objects, so that a copy and an alias differ: h.user_df and h.master_df   *)
(* are the session's loaded frames, the others are the block's own.         *)
(***************************************************************************)
new_col_name == "Converted Part Number"

NOT_FOUND == Str(<<"-", "-", "-", " ", "N", "O", "T", " ",
                   "F", "O", "U", "N", "D", " ", "-", "-", "-">>)

Heap0(m, u) == [master_df |-> m, user_df |-> u, user_df_copy |-> None,
                master_df_copy |-> None, mapping_df |-> None, result_df |-> None]

\* a mutant of DataFrame_copy: no copy is made, the new name refers to the source
DataFrame_copy_alias(h, src, fresh) == [heap |-> h, ref |-> src]

\* df.copy(): a new object with the source's columns and cells
DataFrame_copy(h, src, fresh) == [heap |-> [h EXCEPT ![fresh] = h[src]], ref |-> fresh]

\* lines 134-135: user_df_copy = user_df.copy(); master_df_copy = master_df.copy()
CopyInputs(m, u) ==
    LET c1 == DataFrame_copy(Heap0(m, u), "user_df", "user_df_copy")
        c2 == DataFrame_copy(c1.heap, "master_df", "master_df_copy")
    IN  [h |-> c2.heap, uref |-> c1.ref, mref |-> c2.ref, exc |-> NoExc]

\* line 137: mapping_df = master_df_copy[[master_e_col, new_part_col]].copy()
ProjectMapping(st, k, v) ==
    IF st.exc # NoExc THEN st
    ELSE IF ~({k, v} \subseteq ColNames(st.h[st.mref])) THEN [st EXCEPT !.exc = "KeyError"]
    ELSE [st EXCEPT !.h.mapping_df = getitem_list(st.h[st.mref], <<k, v>>)]

\* line 138: mapping_df[master_e_col] = mapping_df[master_e_col].astype(str).str.strip()
\* (with the key column chosen as the value column too, mapping_df[master_e_col]
\* is a two-column DataFrame, which has no .str)
NormalizeMappingKey(st, k) ==
    IF st.exc # NoExc THEN st
    ELSE LET P == ColPositions(st.h.mapping_df, k)
         IN  IF Cardinality(P) # 1 THEN [st EXCEPT !.exc = "AttributeError"]
             ELSE [st EXCEPT !.h.mapping_df =
                     setitem(@, k, normalize_series(
                         ColumnAt(@, CHOOSE i \in P : TRUE)))]

\* line 139: user_df_copy[user_e_col] = user_df_copy[user_e_col].astype(str).str.strip()
NormalizeUserKey(st, u) ==
    IF st.exc # NoExc THEN st
    ELSE LET P == ColPositions(st.h[st.uref], u)
         IN  IF P = {} THEN [st EXCEPT !.exc = "KeyError"]
             ELSE [st EXCEPT !.h[st.uref] =
                     setitem(@, u, normalize_series(
                         ColumnAt(@, CHOOSE i \in P : TRUE)))]

\* line 140: mapping_df.drop_duplicates(subset=[master_e_col], inplace=True)
DedupMapping(st, k) ==
    IF st.exc # NoExc THEN st
    ELSE [st EXCEPT !.h.mapping_df = drop_duplicates(@, k)]

\* line 142: result_df = pd.merge(user_df_copy, mapping_df, left_on=user_e_col,
\*                                right_on=master_e_col, how='left')
MergeStep(st, u, k) ==
    IF st.exc # NoExc THEN st
    ELSE [st EXCEPT !.h.result_df = merge(st.h[st.uref], st.h.mapping_df, u, k)]

\* lines 144-145: result_df.rename(columns={new_part_col: new_col_name}, inplace=True)
RenameStep(st, v) ==
    IF st.exc # NoExc THEN st
    ELSE [st EXCEPT !.h.result_df = rename(@, v, new_col_name)]

\* a mutant of DropMasterKey: the master key column is dropped when the names are equal
DropMasterKey_inverted(st, u, k) ==
    IF st.exc # NoExc THEN st
    ELSE IF u # k THEN st
    ELSE IF ColPositions(st.h.result_df, k) = {} THEN [st EXCEPT !.exc = "KeyError"]
    ELSE [st EXCEPT !.h.result_df = drop(@, k)]

\* lines 146-147: if user_e_col != master_e_col:
\*                    result_df.drop(columns=[master_e_col], inplace=True)
DropMasterKey(st, u, k) ==
    IF st.exc # NoExc THEN st
    ELSE IF u = k THEN st
    ELSE IF ColPositions(st.h.result_df, k) = {} THEN [st EXCEPT !.exc = "KeyError"]
    ELSE [st EXCEPT !.h.result_df = drop(@, k)]

\* line 148: result_df[new_col_name].fillna('--- NOT FOUND ---', inplace=True)
\* No column of that label: KeyError.  One: the Series is the frame's own column and
\* is filled in place.  Several: result_df[new_col_name] is a new DataFrame, a copy,
\* and filling it leaves result_df as it was.
FillNotFound(st) ==
    IF st.exc # NoExc THEN st
    ELSE LET P == ColPositions(st.h.result_df, new_col_name)
         IN  IF P = {} THEN [st EXCEPT !.exc = "KeyError"]
             ELSE IF Cardinality(P) = 1
                  THEN [st EXCEPT !.h.result_df =
                          fillna_column(@, CHOOSE i \in P : TRUE, NOT_FOUND)]
             ELSE st

\* lines 134-148, from the loaded frames m and u and the three selections
ConvertBlock(m, u, k, v, uc) ==
    LET s1 == CopyInputs(m, u)
        s2 == ProjectMapping(s1, k, v)
        s3 == NormalizeMappingKey(s2, k)
        s4 == NormalizeUserKey(s3, uc)
        s5 == DedupMapping(s4, k)
        s6 == MergeStep(s5, uc, k)
        s7 == RenameStep(s6, v)
        s8 == DropMasterKey(s7, uc, k)
    IN  FillNotFound(s8)

(***************************************************************************)
(* The tables the uploaded files hold                                      *)
(***************************************************************************)
MaxMasterRows == 2
MaxDataRows == 2

SeqsUpTo(S, n) == UNION {[1..k -> S] : k \in 0..n}

A1 == <<"A", "1">>
A1_spaced == <<" ", "A", "1", " ">>
A1_lower_trailing == <<"a", "1", " ">>
B2 == <<"B", "2">>
C3 == <<"C", "3">>
T42_spaced == <<" ", "4", "2", " ">>
X1 == <<"X", "1">>
X2 == <<"X", "2">>
Y1 == <<"Y", "1">>
Old == <<"o", "l", "d">>

\* Keys and values: master keys with two spellings of one normalized key ("42"),
\* data keys that differ from them by whitespace and by int versus text, a data
\* key no master row has, and a missing value.
MasterKeyCells == {Str(A1), Str(T42_spaced), Int_(42)}
MasterValCells == {Str(X1), Str(X2), NaN}
DataKeyCells == {Str(A1_spaced), Int_(42), Str(C3)}

\* the column labels the script prefers (lines 120-127), every row content
MasterTablesA ==
    {[columns |-> <<"E Number", "200 Number">>, rows |-> rs] :
        rs \in SeqsUpTo({<<k, v>> : k \in MasterKeyCells, v \in MasterValCells},
                        MaxMasterRows)}
DataTablesA ==
    {[columns |-> <<"PART/ E #">>, rows |-> rs] :
        rs \in SeqsUpTo({<<k>> : k \in DataKeyCells}, MaxDataRows)}

\* every choice of distinct column labels among these, two fixed rows
LabelsB == {"E Number", "200 Number", "PART/ E #", "Converted Part Number"}
LabelPairsB == {ab \in LabelsB \X LabelsB : ab[1] # ab[2]}
MasterTablesB ==
    {[columns |-> ab,
      rows |-> << <<Str(A1), Str(X1)>>, <<Str(A1_spaced), Str(X2)>> >>] :
        ab \in LabelPairsB}
DataTablesB ==
    {[columns |-> <<a>>, rows |-> << <<Str(A1_spaced)>>, <<Str(C3)>> >>] :
        a \in LabelsB}
    \cup {[columns |-> ab,
           rows |-> << <<Str(A1_spaced), Str(Old)>>, <<Str(C3), NaN>> >>] :
            ab \in LabelPairsB}

\* the tables of the worked example
ExampleMaster ==
    [columns |-> <<"E", "New">>,
     rows |-> << <<Str(A1), Str(X1)>>, <<Str(A1), Str(X2)>>, <<Str(B2), Str(Y1)>> >>]
ExampleData ==
    [columns |-> <<"Part">>, rows |-> << <<Str(A1_lower_trailing)>>, <<Str(C3)>> >>]

\* what the two load_data_file calls of lines 102-103 can return, as a pair
Uploads ==
    (MasterTablesA \X DataTablesA) \cup (MasterTablesB \X DataTablesB)
    \cup {<<ExampleMaster, ExampleData>>,
          <<None, None>>, <<ExampleMaster, None>>, <<None, ExampleData>>}

(***************************************************************************)
(* The script: load, select, convert                                       *)
(***************************************************************************)
NoSel == "(no widget)"

Loaded == master_df # None /\ user_df # None

\* lines 120-128: cols.index(preferred) if preferred in cols else fallback,
\* as the label the selectbox then shows (fallback counts from 0)
DefaultCol(cols, preferred, fallback) ==
    IF \E i \in 1..Len(cols) : cols[i] = preferred THEN preferred
    ELSE cols[fallback + 1]

\* lines 92-128: two files are put into the empty uploaders and both are read;
\* with both frames there, the three selectboxes are drawn with their default
\* choices
LoadFiles ==
    /\ master_df = None /\ user_df = None
    /\ \E up \in Uploads :
        /\ master_df' = up[1]
        /\ user_df' = up[2]
        /\ loaded_master' = up[1]
        /\ loaded_user' = up[2]
        /\ IF up[1] # None /\ up[2] # None
           THEN /\ master_e_col' = DefaultCol(up[1].columns, "E Number", 0)
                /\ new_part_col' = DefaultCol(up[1].columns, "200 Number", 1)
                /\ user_e_col' = DefaultCol(up[2].columns, "PART/ E #", 0)
           ELSE /\ master_e_col' = NoSel
                /\ new_part_col' = NoSel
                /\ user_e_col' = NoSel
    /\ result_df' = None
    /\ convert_exc' = NoExc
    /\ UNCHANGED loadVars

\* lines 92-100: the files are taken out of the uploaders; the rerun shows nothing
\* below the uploaders
ClearFiles ==
    /\ master_df # None \/ user_df # None
    /\ master_df' = None
    /\ user_df' = None
    /\ loaded_master' = None
    /\ loaded_user' = None
    /\ master_e_col' = NoSel
    /\ new_part_col' = NoSel
    /\ user_e_col' = NoSel
    /\ result_df' = None
    /\ convert_exc' = NoExc
    /\ UNCHANGED loadVars

\* line 122: another key column is chosen; the script reruns without a conversion
SelectMasterKey ==
    /\ Loaded
    /\ \E c \in ColNames(master_df) \ {master_e_col} : master_e_col' = c
    /\ result_df' = None
    /\ convert_exc' = NoExc
    /\ UNCHANGED <<master_df, user_df, loaded_master, loaded_user,
                   new_part_col, user_e_col>>
    /\ UNCHANGED loadVars

\* line 123: another value column is chosen
SelectNewPart ==
    /\ Loaded
    /\ \E c \in ColNames(master_df) \ {new_part_col} : new_part_col' = c
    /\ result_df' = None
    /\ convert_exc' = NoExc
    /\ UNCHANGED <<master_df, user_df, loaded_master, loaded_user,
                   master_e_col, user_e_col>>
    /\ UNCHANGED loadVars

\* line 128: another data key column is chosen
SelectUserKey ==
    /\ Loaded
    /\ \E c \in ColNames(user_df) \ {user_e_col} : user_e_col' = c
    /\ result_df' = None
    /\ convert_exc' = NoExc
    /\ UNCHANGED <<master_df, user_df, loaded_master, loaded_user,
                   master_e_col, new_part_col>>
    /\ UNCHANGED loadVars

\* lines 132-151: the button is pressed; the block runs on the session's frames
\* and its result is shown, or it ends with an exception and nothing is shown
Convert ==
    /\ Loaded
    /\ LET st == ConvertBlock(master_df, user_df, master_e_col, new_part_col, user_e_col)
       IN  /\ master_df' = st.h.master_df
           /\ user_df' = st.h.user_df
           /\ result_df' = IF st.exc = NoExc THEN st.h.result_df ELSE None
           /\ convert_exc' = st.exc
    /\ UNCHANGED <<loaded_master, loaded_user, master_e_col, new_part_col, user_e_col>>
    /\ UNCHANGED loadVars

Init ==
    /\ master_df = None
    /\ user_df = None
    /\ loaded_master = None
    /\ loaded_user = None
    /\ master_e_col = NoSel
    /\ new_part_col = NoSel
    /\ user_e_col = NoSel
    /\ result_df = None
    /\ convert_exc = NoExc
    /\ pc = "idle"
    /\ file_name = <<>>
    /\ skiprows = 0
    /\ file_pos = 0
    /\ calls = <<>>
    /\ pending_exc = <<>>
    /\ ret = Pending
    /\ diag = <<>>

Next ==
    \/ LoadFiles
    \/ ClearFiles
    \/ SelectMasterKey
    \/ SelectNewPart
    \/ SelectUserKey
    \/ Convert

Spec == Init /\ [][Next]_vars

(***************************************************************************)
(* What the properties of a conversion are stated with.  The inputs are the *)
(* frames as load_data_file returned them (loaded_master, loaded_user).     *)
(***************************************************************************)
HasResult == result_df # None

\* the conversion ran to its end or to an exception
Converted == HasResult \/ convert_exc # NoExc

DataKeyPos == CHOOSE i \in ColPositions(loaded_user, user_e_col) : TRUE
MasterKeyPos == CHOOSE i \in ColPositions(loaded_master, master_e_col) : TRUE
MasterValPos == CHOOSE i \in ColPositions(loaded_master, new_part_col) : TRUE

DataRows == 1..Len(loaded_user.rows)
MasterRows == 1..Len(loaded_master.rows)

DataKey(i) == loaded_user.rows[i][DataKeyPos]
MasterKey(j) == loaded_master.rows[j][MasterKeyPos]
MasterVal(j) == loaded_master.rows[j][MasterValPos]

SetMin(S) == CHOOSE x \in S : \A y \in S : x <= y
SetMax(S) == CHOOSE x \in S : \A y \in S : x >= y

\* a text without its leading and trailing whitespace, by the positions of its
\* first and last non-whitespace characters
Trim(s) ==
    LET solid == {i \in 1..Len(s) : s[i] \notin Whitespace}
    IN  IF solid = {} THEN <<>> ELSE SubSeq(s, SetMin(solid), SetMax(solid))

\* two cells that differ at most by surrounding whitespace and by being a number
\* or its text
SameKey(a, b) == Trim(py_str(a)) = Trim(py_str(b))

\* the first master row, in the master table's order, whose key is the same key
\* as cell c; 0 when there is none
FirstMatch(c) ==
    LET hits == {j \in MasterRows : SameKey(MasterKey(j), c)}
    IN  IF hits = {} THEN 0 ELSE SetMin(hits)

\* the cell of result row i in the column the conversion appends, the last one
OutCell(i) == result_df.rows[i][Len(result_df.columns)]

\* C1: every result a conversion returns has exactly as many rows as the data
\* table, in the data table's row order: row i of the result carries row i of the
\* data table (its key as normalized text, its other cells that hold a value as
\* they were), however many master rows share a normalized key.
C1_RowCountAndOrder ==
    HasResult =>
        /\ Len(result_df.rows) = Len(loaded_user.rows)
        /\ \A i \in DataRows : \A p \in 1..Len(loaded_user.columns) :
              IF p = DataKeyPos
              THEN result_df.rows[i][p] = Str(Trim(py_str(DataKey(i))))
              ELSE \/ result_df.rows[i][p] = loaded_user.rows[i][p]
                   \/ isna(loaded_user.rows[i][p])

\* a result of two rows with different keys, the first of them matched by two
\* master rows of the same normalized key
C1_Witness ==
    /\ HasResult
    /\ Len(loaded_user.rows) = 2
    /\ Len(result_df.rows) = 2
    /\ ~SameKey(DataKey(1), DataKey(2))
    /\ Cardinality({j \in MasterRows : SameKey(MasterKey(j), DataKey(1))}) >= 2

\* C2: with two or more master rows of one normalized key and different values,
\* every data row of that key gets, in the column the conversion appends, the
\* value of the first of them in the master table's order, whatever the later
\* rows hold.  (A first row whose value cell is empty has no value to give: the
\* row is then left as an unmatched row is, and gets no later row's value.)
C2_FirstWins ==
    HasResult =>
        /\ Len(result_df.rows) = Len(loaded_user.rows)
        /\ \A i \in DataRows :
              LET j == FirstMatch(DataKey(i))
              IN  (/\ j # 0
                   /\ \E q \in MasterRows : /\ q > j
                                            /\ SameKey(MasterKey(q), MasterKey(j))
                                            /\ MasterVal(q) # MasterVal(j))
                  => IF isna(MasterVal(j)) THEN OutCell(i) \in {NOT_FOUND, NaN}
                     ELSE OutCell(i) = MasterVal(j)

\* a data row whose key two master rows share, spelled differently and with two
\* different values, shown with the first one's value
C2_Witness ==
    /\ HasResult
    /\ \E i \in DataRows :
          LET j == FirstMatch(DataKey(i))
          IN  /\ j # 0
              /\ ~isna(MasterVal(j))
              /\ \E q \in MasterRows : /\ q > j
                                       /\ SameKey(MasterKey(q), MasterKey(j))
                                       /\ MasterKey(q) # MasterKey(j)
                                       /\ ~isna(MasterVal(q))
                                       /\ MasterVal(q) # MasterVal(j)
              /\ OutCell(i) = MasterVal(j)

\* C3: a data key and a master key that differ only by surrounding whitespace or
\* by number versus text (42 and " 42 ") are the same key to the conversion: the
\* data row gets that master row's value, the row being the one its key stands
\* for (the first of that key) and holding a value.
C3_NormalizedKeysMatch ==
    HasResult =>
        /\ Len(result_df.rows) = Len(loaded_user.rows)
        /\ \A i \in DataRows : \A j \in MasterRows :
              (/\ SameKey(DataKey(i), MasterKey(j))
               /\ j = FirstMatch(MasterKey(j))
               /\ ~isna(MasterVal(j)))
              => OutCell(i) = MasterVal(j)

\* the int 42 in the data table matched with the text " 42 " in the master table,
\* and a text key matched across surrounding whitespace
C3_Witness ==
    /\ HasResult
    /\ \E i \in DataRows : \E j \in MasterRows :
          /\ DataKey(i) = Int_(42)
          /\ MasterKey(j) = Str(T42_spaced)
          /\ j = FirstMatch(MasterKey(j))
          /\ ~isna(MasterVal(j))
          /\ OutCell(i) = MasterVal(j)
    /\ \E i \in DataRows : \E j \in MasterRows :
          /\ DataKey(i).t = "str"
          /\ MasterKey(j).t = "str"
          /\ DataKey(i) # MasterKey(j)
          /\ SameKey(DataKey(i), MasterKey(j))
          /\ j = FirstMatch(MasterKey(j))
          /\ ~isna(MasterVal(j))
          /\ OutCell(i) = MasterVal(j)

\* C4: in every result, a data row whose normalized key no master row has holds
\* exactly '--- NOT FOUND ---' in the output column 'Converted Part Number': the
\* column exists, and is the appended one, and the row's cell in it is the marker.
C4_NotFoundSentinel ==
    HasResult =>
        /\ Len(result_df.rows) = Len(loaded_user.rows)
        /\ \A i \in DataRows :
              FirstMatch(DataKey(i)) = 0
              => /\ result_df.columns[Len(result_df.columns)] = new_col_name
                 /\ OutCell(i) = NOT_FOUND

\* C5 as stated: on the worked example the result is Part = "a1 " with "X1" and
\* Part = "C3" with '--- NOT FOUND ---'.
OnExample ==
    /\ loaded_master = ExampleMaster
    /\ loaded_user = ExampleData
    /\ master_e_col = "E"
    /\ new_part_col = "New"
    /\ user_e_col = "Part"

C5_Example_AsStated ==
    (OnExample /\ Converted) =>
        result_df = [columns |-> <<"Part", new_col_name>>,
                     rows |-> << <<Str(A1_lower_trailing), Str(X1)>>,
                                 <<Str(C3), NOT_FOUND>> >>]

\* C5 as amended: on the worked example the result has exactly two rows,
\* Part = "a1" (the key as normalized: stripped) with '--- NOT FOUND ---' (the
\* comparison is case-sensitive: "a1" is not "A1"), and Part = "C3" with
\* '--- NOT FOUND ---'.
C5_Example ==
    (OnExample /\ Converted) =>
        result_df = [columns |-> <<"Part", new_col_name>>,
                     rows |-> << <<Str(<<"a", "1">>), NOT_FOUND>>,
                                 <<Str(C3), NOT_FOUND>> >>]

C5_Witness == OnExample /\ HasResult

\* C6 as stated: key columns of one name: exactly one column of that name in the
\* result; of different names: both are in the result, their cells untouched.
C6_KeyColumns_AsStated ==
    HasResult =>
        /\ Len(result_df.rows) = Len(loaded_user.rows)
        /\ user_e_col = master_e_col
           => Cardinality(ColPositions(result_df, user_e_col)) = 1
        /\ user_e_col # master_e_col
           => /\ ColPositions(result_df, master_e_col) # {}
              /\ ColPositions(result_df, user_e_col) # {}
              /\ \A i \in DataRows : result_df.rows[i][DataKeyPos] = DataKey(i)

\* C6 as amended: key columns of one name: the master's is not attached, and the
\* result has exactly one column of that name (unless the name is 'Converted
\* Part Number', which the output column then bears too); of different names: the
\* master key column is dropped from the result, and the data key column stands
\* at its place holding the normalized keys, not the original cells.
C6_KeyColumns ==
    HasResult =>
        /\ Len(result_df.rows) = Len(loaded_user.rows)
        /\ Len(result_df.columns) = Len(loaded_user.columns) + 1
        /\ (user_e_col = master_e_col /\ user_e_col # new_col_name)
           => Cardinality(ColPositions(result_df, user_e_col)) = 1
        /\ user_e_col # master_e_col
           => /\ ColPositions(result_df, master_e_col) = {}
              /\ \A i \in DataRows :
                    result_df.rows[i][DataKeyPos] = Str(Trim(py_str(DataKey(i))))

\* a result for key columns of different names, with a data key that the
\* normalization changed
C6_Witness ==
    /\ HasResult
    /\ user_e_col # master_e_col
    /\ \E i \in DataRows : result_df.rows[i][DataKeyPos] # DataKey(i)

\* C7: a conversion leaves the session's two loaded frames as load_data_file
\* returned them, whatever was selected and however it ended, and so the result
\* shown is the result of converting the frames as loaded.
C7_InputsNotMutated ==
    /\ master_df = loaded_master
    /\ user_df = loaded_user
    /\ HasResult =>
          result_df = ConvertBlock(loaded_master, loaded_user, master_e_col,
                                   new_part_col, user_e_col).h.result_df

\* a result whose key column differs from the loaded data table's: the block did
\* rewrite a key column, on its copy
C7_Witness ==
    /\ HasResult
    /\ Len(result_df.rows) = Len(loaded_user.rows)
    /\ \E i \in DataRows : result_df.rows[i][DataKeyPos] # DataKey(i)
    /\ user_df = loaded_user

\* C8: with the data key column in the data table and the master key and value
\* columns in the master table, the conversion completes and its result holds the
\* output column.
C8_TotalOnValidSelections ==
    (/\ Loaded
     /\ Converted
     /\ user_e_col \in ColNames(loaded_user)
     /\ {master_e_col, new_part_col} \subseteq ColNames(loaded_master))
    => /\ convert_exc = NoExc
       /\ HasResult
       /\ new_col_name \in ColNames(result_df)

(***************************************************************************)
(* load_data_file, lines 15-42, one step per statement that can end the     *)
(* call or hand control to a handler.  A reader either returns a table or   *)
(* raises an exception with a message; which, and where it leaves the read  *)
(* position, is the file's doing and is left open here.                     *)
(***************************************************************************)
MaxHeaderRow == 2
MaxFilePos == 1

UpperCase == <<"A", "B", "C", "D", "E", "F", "G", "H", "I", "J", "K", "L", "M",
               "N", "O", "P", "Q", "R", "S", "T", "U", "V", "W", "X", "Y", "Z">>
LowerCase == <<"a", "b", "c", "d", "e", "f", "g", "h", "i", "j", "k", "l", "m",
               "n", "o", "p", "q", "r", "s", "t", "u", "v", "w", "x", "y", "z">>

\* str.lower()
lower(s) ==
    [i \in 1..Len(s) |->
        IF \E k \in 1..26 : UpperCase[k] = s[i]
        THEN LowerCase[CHOOSE k \in 1..26 : UpperCase[k] = s[i]]
        ELSE s[i]]

\* str.endswith(suffix)
endswith(s, suffix) ==
    /\ Len(s) >= Len(suffix)
    /\ SubSeq(s, Len(s) - Len(suffix) + 1, Len(s)) = suffix

\* sub in s
contains(s, sub) ==
    \E i \in 1..(Len(s) - Len(sub) + 1) : SubSeq(s, i, i + Len(sub) - 1) = sub

EXT_CSV == <<".", "c", "s", "v">>
EXT_TSV == <<".", "t", "s", "v">>
EXT_TXT == <<".", "t", "x", "t">>
EXT_XLSB == <<".", "x", "l", "s", "b">>
EXT_XLSX == <<".", "x", "l", "s", "x">>
EXT_XLSM == <<".", "x", "l", "s", "m">>
EXT_XLS == <<".", "x", "l", "s">>
ZIP_FILE == <<"z", "i", "p", " ", "f", "i", "l", "e">>

\* the names of the uploaded files: every extension the uploader accepts (line
\* 88), some in upper case, and one it does not
FileNames ==
    {<<"m">> \o e : e \in {EXT_CSV, EXT_TSV, EXT_TXT, EXT_XLSB, EXT_XLSX, EXT_XLSM,
                           EXT_XLS, <<".", "X", "L", "S">>, <<".", "X", "l", "s", "x">>, <<".", "p", "d", "f">>}}

\* the messages of the exceptions a reader raises
ReaderErrors == {<<"F", "i", "l", "e", " ", "i", "s", " ", "n", "o", "t", " ", "a", " ", "z", "i", "p", " ", "f", "i", "l", "e">>,
                 <<"B", "a", "d", " ", "Z", "I", "P", " ", "F", "i", "l", "e">>,
                 <<"N", "o", " ", "s", "h", "e", "e", "t">>}

\* the tables a reader returns
ReadableTables == {ExampleMaster, ExampleData}

IsDelimited(name) ==
    \E e \in {EXT_CSV, EXT_TSV, EXT_TXT} : endswith(lower(name), e)
IsXlsb(name) == ~IsDelimited(name) /\ endswith(lower(name), EXT_XLSB)
IsExcel(name) ==
    /\ ~IsDelimited(name)
    /\ ~IsXlsb(name)
    /\ \E e \in {EXT_XLSX, EXT_XLSM, EXT_XLS} : endswith(lower(name), e)

Call(op, outcome, msg) ==
    [op |-> op, header |-> skiprows, pos |-> file_pos, outcome |-> outcome, msg |-> msg]

\* line 15, lines 20-23: the call starts, on a file read from its start
LoadCall ==
    /\ pc = "idle"
    /\ \E name \in FileNames, header_row \in 1..MaxHeaderRow :
          /\ file_name' = name
          /\ skiprows' = header_row - 1
    /\ file_pos' = 0
    /\ calls' = <<>>
    /\ pending_exc' = <<>>
    /\ ret' = Pending
    /\ diag' = <<>>
    /\ pc' = "try"
    /\ UNCHANGED appVars

\* a reader runs: it returns a table (the call returns it), or raises, which
\* hands control to the handler at `handler`
RunReader(op, handler) ==
    /\ \E p \in 0..MaxFilePos : file_pos' = p
    /\ \/ /\ \E t \in ReadableTables : ret' = [kind |-> "table", value |-> t]
          /\ calls' = Append(calls, Call(op, "ok", <<>>))
          /\ pending_exc' = <<>>
          /\ pc' = "done"
       \/ /\ \E msg \in ReaderErrors :
                /\ calls' = Append(calls, Call(op, "raised", msg))
                /\ pending_exc' = msg
          /\ ret' = ret
          /\ pc' = handler
    /\ UNCHANGED <<file_name, skiprows, diag>>
    /\ UNCHANGED appVars

\* lines 24-25: pd.read_csv(..., sep=None, engine='python')
ReadCsv ==
    /\ pc = "try"
    /\ IsDelimited(file_name)
    /\ RunReader("read_csv", "except_outer")

\* lines 27-28: pd.read_excel(..., engine='pyxlsb')
ReadXlsb ==
    /\ pc = "try"
    /\ IsXlsb(file_name)
    /\ RunReader("pyxlsb", "except_outer")

\* lines 30-32: pd.read_excel(..., engine='openpyxl')
ReadPrimary ==
    /\ pc = "try"
    /\ IsExcel(file_name)
    /\ RunReader("openpyxl", "except_inner")

\* lines 24-30, no branch taken: the function ends without a return statement
NoReader ==
    /\ pc = "try"
    /\ ~IsDelimited(file_name) /\ ~IsXlsb(file_name) /\ ~IsExcel(file_name)
    /\ ret' = [kind |-> "none", value |-> None]
    /\ pc' = "done"
    /\ UNCHANGED <<file_name, skiprows, file_pos, calls, pending_exc, diag>>
    /\ UNCHANGED appVars

\* a mutant of ShouldFallback: every failure of the primary reader is retried
ShouldFallback_always(msg, name) == TRUE

\* line 34: "zip file" in str(e).lower() or file_name_lower.endswith('.xls')
ShouldFallback(msg, name) ==
    contains(lower(msg), ZIP_FILE) \/ endswith(lower(name), EXT_XLS)

\* lines 33-34, 37-38: the primary reader's exception is caught; it is retried
\* with the legacy reader or raised again
CatchPrimary ==
    /\ pc = "except_inner"
    /\ pc' = IF ShouldFallback(pending_exc, file_name) THEN "seek" ELSE "except_outer"
    /\ UNCHANGED <<file_name, skiprows, file_pos, calls, pending_exc, ret, diag>>
    /\ UNCHANGED appVars

\* line 35: uploaded_file.seek(0)
SeekStart ==
    /\ pc = "seek"
    /\ file_pos' = 0
    /\ calls' = Append(calls, Call("seek", "ok", <<>>))
    /\ pc' = "legacy"
    /\ UNCHANGED <<file_name, skiprows, pending_exc, ret, diag>>
    /\ UNCHANGED appVars

\* line 36: pd.read_excel(..., engine='xlrd')
ReadLegacy ==
    /\ pc = "legacy"
    /\ RunReader("xlrd", "except_outer")

\* a mutant of ReportAndReturnNone: the exception is reported and raised again
ReportAndReturnNone_reraises ==
    /\ pc = "except_outer"
    /\ diag' = Append(diag, [file |-> file_name, error |-> pending_exc])
    /\ ret' = [kind |-> "raised", value |-> None]
    /\ pc' = "done"
    /\ UNCHANGED <<file_name, skiprows, file_pos, calls, pending_exc>>
    /\ UNCHANGED appVars

\* lines 39-42: any exception of the try block is reported with st.error, naming
\* the file, and the call returns None
ReportAndReturnNone ==
    /\ pc = "except_outer"
    /\ diag' = Append(diag, [file |-> file_name, error |-> pending_exc])
    /\ ret' = [kind |-> "none", value |-> None]
    /\ pc' = "done"
    /\ UNCHANGED <<file_name, skiprows, file_pos, calls, pending_exc>>
    /\ UNCHANGED appVars

\* the caller (lines 102-103) has the returned value; the next call can start
Return ==
    /\ pc = "done"
    /\ pc' = "idle"
    /\ UNCHANGED <<file_name, skiprows, file_pos, calls, pending_exc, ret, diag>>
    /\ UNCHANGED appVars

NextLoad ==
    \/ LoadCall
    \/ ReadCsv
    \/ ReadXlsb
    \/ ReadPrimary
    \/ NoReader
    \/ CatchPrimary
    \/ SeekStart
    \/ ReadLegacy
    \/ ReportAndReturnNone
    \/ Return

SpecLoad == Init /\ [][NextLoad]_vars

(***************************************************************************)
(* What the properties of a load are stated with: the log of the call       *)
(***************************************************************************)
IsReaderCall(c) == c.op # "seek"
ReaderCalls == SelectSeq(calls, IsReaderCall)

AnyReaderRaised == \E i \in 1..Len(calls) : calls[i].outcome = "raised"
LastReaderRaised ==
    ReaderCalls # <<>> /\ ReaderCalls[Len(ReaderCalls)].outcome = "raised"
LastReaderCompleted ==
    ReaderCalls # <<>> /\ ReaderCalls[Len(ReaderCalls)].outcome = "ok"

DiagnosticNamesFile == Len(diag) = 1 /\ diag[1].file = file_name

\* C9 as stated: the call never raises to its caller; whenever any reader,
\* primary or fallback, raised, the call returns None after a diagnostic naming
\* the file; it returns a table only when a reader completed.
C9_NeverRaises_AsStated ==
    /\ ret.kind # "raised"
    /\ pc = "done" =>
          /\ AnyReaderRaised => (ret.kind = "none" /\ DiagnosticNamesFile)
          /\ ret.kind = "table" => LastReaderCompleted

\* C9 as amended: the call never raises to its caller; whenever a reader raised
\* and no reader completed after it (the primary reader's failure was not
\* retried, or the legacy reader raised too), the call returns None after a
\* diagnostic naming the file; it returns a table exactly when the last reader
\* invoked completed, that reader's table, and then reports nothing.
C9_NeverRaises ==
    /\ ret.kind # "raised"
    /\ pc = "done" =>
          /\ ret.kind \in {"table", "none"}
          /\ LastReaderRaised => (ret.kind = "none" /\ DiagnosticNamesFile)
          /\ ret.kind = "table" <=> LastReaderCompleted
          /\ ret.kind = "table" => (ret.value \in ReadableTables /\ diag = <<>>)

\* a call ended after the primary and then the legacy reader both raised
C9_Witness ==
    /\ pc = "done"
    /\ Len(ReaderCalls) = 2
    /\ ReaderCalls[1].outcome = "raised"
    /\ ReaderCalls[2].outcome = "raised"
    /\ ret.kind = "none"
    /\ DiagnosticNamesFile

\* the condition of line 34, on the log: the primary reader's message and the name
PrimaryFailureRetried ==
    \/ contains(lower(calls[1].msg), ZIP_FILE)
    \/ endswith(lower(file_name), EXT_XLS)

\* C10: for a name ending in .xlsx, .xlsm or .xls the first reader invoked is the
\* primary one; the legacy reader is invoked at most once, only after the primary
\* reader raised with a message mentioning 'zip file' or for a name ending in
\* .xls, and right after the read position was set to 0; a primary failure
\* meeting neither condition ends in a load error with no legacy reader invoked.
\* For a delimited-text or .xlsb name only that format's reader is ever invoked.
C10_FallbackOrder ==
    /\ (IsExcel(file_name) /\ pc # "try")
       => (calls # <<>> /\ calls[1].op = "openpyxl")
    /\ IsExcel(file_name)
       => \A i \in 1..Len(calls) :
             /\ calls[i].op \in {"openpyxl", "seek", "xlrd"}
             /\ calls[i].op = "openpyxl" => i = 1
             /\ calls[i].op = "xlrd"
                => /\ i = 3
                   /\ calls[1].outcome = "raised"
                   /\ PrimaryFailureRetried
                   /\ calls[2].op = "seek"
                   /\ calls[i].pos = 0
    /\ (/\ IsExcel(file_name)
        /\ pc = "done"
        /\ calls[1].outcome = "raised"
        /\ ~PrimaryFailureRetried)
       => /\ Len(calls) = 1
          /\ ret.kind = "none"
          /\ DiagnosticNamesFile
    /\ (IsDelimited(file_name) /\ pc # "try")
       => (Len(calls) = 1 /\ calls[1].op = "read_csv")
    /\ (IsXlsb(file_name) /\ pc # "try")
       => (Len(calls) = 1 /\ calls[1].op = "pyxlsb")

\* an .xlsx name whose primary reader raised "not a zip file" away from the start
\* of the file, read by the legacy reader from position 0
C10_Witness ==
    /\ pc = "done"
    /\ endswith(lower(file_name), EXT_XLSX)
    /\ Len(calls) = 3
    /\ calls[1].op = "openpyxl" /\ calls[1].outcome = "raised"
    /\ calls[2].op = "seek" /\ calls[2].pos # 0
    /\ calls[3].op = "xlrd" /\ calls[3].pos = 0 /\ calls[3].outcome = "ok"
    /\ ret.kind = "table"

====
